---- MODULE Spec2Model ----
(***************************************************************************)
(* Model of the vscode-latency-monitor telemetry pipeline:                 *)
(*   samplers (monitor.rs) -> crossbeam channel -> consumer loop ->        *)
(*   SQLite table latency_events (storage.rs), and the read operations of  *)
(*   MetricsStorage that the dashboard / telemetry servers call.           *)
(***************************************************************************)
EXTENDS Integers, Sequences, FiniteSets, TLC

(***************************************************************************)
(* Bounds of the model.                                                    *)
(***************************************************************************)
\* Total number of LatencyEvents the samplers create in one behaviour.
MaxEvents == 3
\* Largest number of processes one scan of the process table returns.
MaxProcs == 2
\* Largest number of tokio worker threads (the default is the CPU count).
MaxWorkers == 2
\* config.monitoring.buffer_size of the modelled run.
buffer_size == 1
\* Largest retention_days handed to cleanup_old_events.
MaxRetentionDays == 1
\* Largest limit handed to get_recent_events.
MaxLimit == 3
\* Number of times the store becomes unavailable in one behaviour.
MaxOutages == 1

(***************************************************************************)
(* Wall-clock instants (chrono::DateTime<Utc>).  An instant is a day       *)
(* number d (day 0 is 2024-01-10), the second of that day s and the        *)
(* nanosecond n of that second.  The clock of a behaviour walks through    *)
(* Instants; the list holds instants whose RFC 3339 forms have 0, 3 and 6  *)
(* fractional digits, two that are more than one hour apart on one date,   *)
(* and two that are exactly one day apart.                                 *)
(***************************************************************************)
Instants ==
  << [d |-> 0, s |-> 0,    n |-> 0],
     [d |-> 0, s |-> 0,    n |-> 500000000],
     [d |-> 0, s |-> 0,    n |-> 500001000],
     [d |-> 1, s |-> 0,    n |-> 500000000] >>

SecondsPerDay == 86400
SecondsPerHour == 3600

\* Chronological order of two instants.
InstantLess(a, b) ==
  \/ a.d < b.d
  \/ a.d = b.d /\ a.s < b.s
  \/ a.d = b.d /\ a.s = b.s /\ a.n < b.n

\* a - days (chrono: DateTime - Duration::days(k)).
MinusDays(a, k) == [d |-> a.d - k, s |-> a.s, n |-> a.n]

\* a - one hour, truncated to the second (SQLite: datetime('now', '-1 hour')).
MinusOneHourSeconds(a) ==
  IF a.s >= SecondsPerHour
    THEN [d |-> a.d, s |-> a.s - SecondsPerHour, n |-> 0]
    ELSE [d |-> a.d - 1, s |-> a.s + SecondsPerDay - SecondsPerHour, n |-> 0]

(***************************************************************************)
(* Text.  A string is a sequence of ASCII codes, so that the byte-wise     *)
(* comparison SQLite applies to TEXT columns is a comparison of sequences. *)
(***************************************************************************)
Digit(k) == 48 + k
TwoDigits(k) == << Digit(k \div 10), Digit(k % 10) >>
ThreeDigits(k) == << Digit(k \div 100), Digit((k \div 10) % 10), Digit(k % 10) >>

\* ASCII codes of the punctuation the two time formats use.
Ascii == [space |-> 32, plus |-> 43, minus |-> 45, dot |-> 46, colon |-> 58, T |-> 84]
ChPlus == Ascii.plus
ChMinus == Ascii.minus
ChDot == Ascii.dot
ChColon == Ascii.colon
ChSpace == Ascii.space
ChT == Ascii.T

\* "2024-01-DD": day 0 of the model is 10 January 2024.
DateText(a) ==
  << Digit(2), Digit(0), Digit(2), Digit(4), ChMinus, Digit(0), Digit(1), ChMinus >>
    \o TwoDigits(10 + a.d)

\* "HH:MM:SS"
TimeText(a) ==
  TwoDigits(a.s \div 3600) \o << ChColon >> \o TwoDigits((a.s \div 60) % 60)
    \o << ChColon >> \o TwoDigits(a.s % 60)

\* chrono SecondsFormat::AutoSi: no fraction, or 3, 6 or 9 digits, whichever
\* is the shortest that loses nothing.
FractionText(a) ==
  IF a.n = 0 THEN << >>
  ELSE IF a.n % 1000000 = 0 THEN << ChDot >> \o ThreeDigits(a.n \div 1000000)
  ELSE IF a.n % 1000 = 0
    THEN << ChDot >> \o ThreeDigits(a.n \div 1000000)
           \o ThreeDigits((a.n \div 1000) % 1000)
  ELSE << ChDot >> \o ThreeDigits(a.n \div 1000000)
         \o ThreeDigits((a.n \div 1000) % 1000) \o ThreeDigits(a.n % 1000)

\* DateTime<Utc>::to_rfc3339(): "2024-01-10T00:00:00.500+00:00"
to_rfc3339(a) ==
  DateText(a) \o << ChT >> \o TimeText(a) \o FractionText(a)
    \o << ChPlus >> \o TwoDigits(0) \o << ChColon >> \o TwoDigits(0)

\* SQLite datetime(): "2024-01-10 00:00:00"
sqlite_datetime(a) == DateText(a) \o << ChSpace >> \o TimeText(a)

\* Byte-wise order of two texts (SQLite BINARY collation: memcmp, then length).
RECURSIVE TextLess(_, _)
TextLess(x, y) ==
  IF y = << >> THEN FALSE
  ELSE IF x = << >> THEN TRUE
  ELSE IF Head(x) # Head(y) THEN Head(x) < Head(y)
  ELSE TextLess(Tail(x), Tail(y))

\* DateTime::parse_from_rfc3339 on a text that to_rfc3339 wrote.
parse_from_rfc3339(t) ==
  Instants[CHOOSE i \in 1..Len(Instants) : to_rfc3339(Instants[i]) = t]

(***************************************************************************)
(* models.rs: the closed enums and LatencyEvent.                           *)
(***************************************************************************)
VSCode == "ComponentType::VSCode"
VSCodeExtension == "ComponentType::VSCodeExtension"
GitHubCopilot == "ComponentType::GitHubCopilot"
LocalModel == "ComponentType::LocalModel"
Terminal == "ComponentType::Terminal"
FileSystem == "ComponentType::FileSystem"
Network == "ComponentType::Network"
System == "ComponentType::System"
ComponentType ==
  {VSCode, VSCodeExtension, GitHubCopilot, LocalModel, Terminal, FileSystem,
   Network, System}

ProcessMonitor == "EventSource::ProcessMonitor"
ExtensionHost == "EventSource::ExtensionHost"
ModelProcess == "EventSource::ModelProcess"
CommandExecution == "EventSource::CommandExecution"
FileOperation == "EventSource::FileOperation"
NetworkRequest == "EventSource::NetworkRequest"
TestCommand == "EventSource::TestCommand"
UserInteraction == "EventSource::UserInteraction"
EventSource ==
  {ProcessMonitor, ExtensionHost, ModelProcess, CommandExecution, FileOperation,
   NetworkRequest, TestCommand, UserInteraction}

\* #[derive(Debug)] on ComponentType: format!("{:?}", c) is the variant name.
ComponentDebug(c) ==
  CASE c = VSCode -> "VSCode"
    [] c = VSCodeExtension -> "VSCodeExtension"
    [] c = GitHubCopilot -> "GitHubCopilot"
    [] c = LocalModel -> "LocalModel"
    [] c = Terminal -> "Terminal"
    [] c = FileSystem -> "FileSystem"
    [] c = Network -> "Network"
    [] c = System -> "System"

\* #[derive(Debug)] on EventSource.
SourceDebug(e) ==
  CASE e = ProcessMonitor -> "ProcessMonitor"
    [] e = ExtensionHost -> "ExtensionHost"
    [] e = ModelProcess -> "ModelProcess"
    [] e = CommandExecution -> "CommandExecution"
    [] e = FileOperation -> "FileOperation"
    [] e = NetworkRequest -> "NetworkRequest"
    [] e = TestCommand -> "TestCommand"
    [] e = UserInteraction -> "UserInteraction"

\* Option<i64>: None is the empty set and Some(x) the set of x alone.
None == {}
Some(x) == {x}
\* serde_json::Value::Null
JsonNull == "Value::Null"
\* What a task that holds no event holds.
NoEvent == [seq |-> 0]

\* Elapsed times in nanoseconds (std::time::Duration): the ones an event can
\* carry, and the ones a scan of the process table measures with
\* Instant::elapsed().
Durations == {1500, 42000000}
ScanDurations == {1500}

\* LatencyEvent::new.  seq and producer are not fields of the struct: they
\* name the object (the k-th event created, and the task that created it).
LatencyEvent_new(component_type, event_source, duration, description, at, k, who) ==
  [ id |-> None,
    timestamp |-> at,
    component_type |-> component_type,
    event_source |-> event_source,
    duration |-> duration,
    description |-> description,
    metadata |-> JsonNull,
    seq |-> k,
    producer |-> who ]

\* LatencyEvent::duration_us: Duration::as_micros() as u64.
duration_us(ev) == ev.duration \div 1000

(***************************************************************************)
(* The process table a scan reads (sysinfo), and the samplers' filters.    *)
(* A process is a name, its command line and its CPU usage in tenths of a  *)
(* percent.                                                                *)
(***************************************************************************)
Procs ==
  { [name |-> "code", cmd |-> "/usr/share/code/code", cpu |-> 5],
    [name |-> "node", cmd |-> "--type=extensionHost", cpu |-> 5],
    [name |-> "code", cmd |-> "--type=extensionHost", cpu |-> 5],
    [name |-> "copilot-agent", cmd |-> "copilot-agent", cpu |-> 5],
    [name |-> "ollama", cmd |-> "ollama serve", cpu |-> 5],
    [name |-> "bash", cmd |-> "bash", cpu |-> 5],
    [name |-> "bash", cmd |-> "bash", cpu |-> 1],
    [name |-> "systemd", cmd |-> "/sbin/init", cpu |-> 5] }

\* The substring facts about the names and command lines of Procs.
Contains ==
  { <<"code", "code">>, <<"/usr/share/code/code", "code">>,
    <<"--type=extensionHost", "extensionHost">>,
    <<"copilot-agent", "copilot">>, <<"copilot-agent", "copilot-agent">>,
    <<"ollama", "ollama">>, <<"ollama", "llama">>,
    <<"ollama serve", "ollama">>, <<"ollama serve", "llama">> }

ProcTables ==
  UNION { [1..k -> Procs] : k \in 0..MaxProcs }

\* monitor.rs 51-60
is_vscode_process(p) ==
  /\ <<p.name, "code">> \in Contains
  /\ \/ <<p.name, "code-server">> \in Contains
     \/ <<p.name, "code.exe">> \in Contains
     \/ p.name = "code"

\* monitor.rs 81-87
is_extension_host(p) ==
  \/ <<p.name, "extensionhost">> \in Contains
  \/ <<p.cmd, "extensionHost">> \in Contains

\* monitor.rs 124-136
is_copilot_process(p) ==
  \/ <<p.name, "copilot">> \in Contains
  \/ <<p.cmd, "github.copilot">> \in Contains
  \/ <<p.cmd, "copilot-agent">> \in Contains

\* monitor.rs 152
local_model_patterns == << "ollama", "llama", "gpt4all", "localai" >>

\* monitor.rs 155-161
matches_local_model(p, pattern) ==
  \/ <<p.name, pattern>> \in Contains
  \/ <<p.cmd, pattern>> \in Contains

\* monitor.rs 199-207
is_terminal_process(p) ==
  \/ p.name \in {"bash", "zsh", "fish", "sh"}
  \/ <<p.name, "terminal">> \in Contains
  \/ <<p.name, "gnome-terminal">> \in Contains
  \/ <<p.name, "konsole">> \in Contains

\* The processes of table tbl each filter of the samplers collects.
vscode_processes(tbl) == { i \in DOMAIN tbl : is_vscode_process(tbl[i]) }
extension_hosts(tbl) == { i \in DOMAIN tbl : is_extension_host(tbl[i]) }
copilot_processes(tbl) == { i \in DOMAIN tbl : is_copilot_process(tbl[i]) }
matching_processes(tbl, pattern) == { i \in DOMAIN tbl : matches_local_model(tbl[i], pattern) }
terminal_processes(tbl) == { i \in DOMAIN tbl : is_terminal_process(tbl[i]) }

\* A sequence of n copies of x.
Repeat(x, n) == [ i \in 1..n |-> x ]

\* One emission a tick owes: the class and source of the event to create.
Emission(c, e, what) == [component_type |-> c, event_source |-> e, description |-> what]

\* The emissions of one tick of each sampler, in the order of its loops.
vscode_tick(tbl) ==
  Repeat(Emission(VSCode, ProcessMonitor, "Process"), Cardinality(vscode_processes(tbl)))
    \o Repeat(Emission(VSCodeExtension, ExtensionHost, "Extension Host"),
              Cardinality(extension_hosts(tbl)))

RECURSIVE local_model_tick(_, _)
local_model_tick(tbl, i) ==
  IF i > Len(local_model_patterns) THEN << >>
  ELSE Repeat(Emission(LocalModel, ModelProcess, "Local Model"),
              Cardinality(matching_processes(tbl, local_model_patterns[i])))
         \o local_model_tick(tbl, i + 1)

model_tick(tbl) ==
  Repeat(Emission(GitHubCopilot, ModelProcess, "Copilot Process"),
         Cardinality(copilot_processes(tbl)))
    \o local_model_tick(tbl, 1)

\* Only terminals above 0.1% CPU are logged (monitor.rs 210).
terminal_tick(tbl) ==
  Repeat(Emission(Terminal, ProcessMonitor, "Terminal"),
         Cardinality({ i \in terminal_processes(tbl) : tbl[i].cpu > 1 }))

Samplers == {"vscode", "models", "terminal"}

tick_emissions(s, tbl) ==
  CASE s = "vscode" -> vscode_tick(tbl)
    [] s = "models" -> model_tick(tbl)
    [] s = "terminal" -> terminal_tick(tbl)

\* What one tick of each sampler can owe, over all the process tables.
TickChoices == [ s \in Samplers |-> { tick_emissions(s, tbl) : tbl \in ProcTables } ]

\* main.rs start_monitoring: the samplers the component argument starts.
Components == {"vscode", "models", "terminal", "all"}
started_samplers(component) ==
  IF component = "all" THEN Samplers ELSE {component}

(***************************************************************************)
(* storage.rs: the table latency_events and the operations on it.  A row   *)
(* holds the columns of the table; seq and producer are not columns: they  *)
(* name the event the row was written from and the task that created it.   *)
(***************************************************************************)
\* serde_json::to_string(&Value::Null) and serde_json::from_str of it.
json_to_string(v) == IF v = JsonNull THEN "null" ELSE "?"
json_from_str(t) == IF t = "null" THEN JsonNull ELSE JsonNull

MaxOf(S) == CHOOSE x \in S : \A y \in S : y <= x
MinOf(S) == CHOOSE x \in S : \A y \in S : x <= y

\* (INTEGER PRIMARY KEY without AUTOINCREMENT: one more than the largest
\* rowid the table holds now.)
next_rowid_of_table(table, sequence) ==
  MaxOf({0} \cup { r.id : r \in table }) + 1

\* INTEGER PRIMARY KEY AUTOINCREMENT: one more than the largest rowid the
\* table has ever held (sqlite_sequence), also after rows were deleted.
next_rowid(table, sequence) ==
  MaxOf({sequence} \cup { r.id : r \in table }) + 1

\* (A row whose description and metadata are not bound yet.)
bind_row_partial(ev, rowid) ==
  [ id |-> rowid,
    timestamp |-> to_rfc3339(ev.timestamp),
    component_type |-> ComponentDebug(ev.component_type),
    event_source |-> SourceDebug(ev.event_source),
    duration_us |-> duration_us(ev),
    description |-> "",
    metadata |-> "",
    seq |-> ev.seq,
    producer |-> ev.producer ]

\* The row store_event binds (storage.rs 105-110).
bind_row(ev, rowid) ==
  [ id |-> rowid,
    timestamp |-> to_rfc3339(ev.timestamp),
    component_type |-> ComponentDebug(ev.component_type),
    event_source |-> SourceDebug(ev.event_source),
    duration_us |-> duration_us(ev),
    description |-> ev.description,
    metadata |-> json_to_string(ev.metadata),
    seq |-> ev.seq,
    producer |-> ev.producer ]

\* MetricsStorage::store_event: the table after the INSERT.
store_event(table, sequence, ev) ==
  table \cup { bind_row(ev, next_rowid(table, sequence)) }

\* storage.rs 145-154 and 198-207
parse_component_type(t) ==
  CASE t = "VSCode" -> VSCode
    [] t = "VSCodeExtension" -> VSCodeExtension
    [] t = "GitHubCopilot" -> GitHubCopilot
    [] t = "LocalModel" -> LocalModel
    [] t = "Terminal" -> Terminal
    [] t = "FileSystem" -> FileSystem
    [] t = "Network" -> Network
    [] OTHER -> System

\* storage.rs 157: the stored text is not read.
parse_event_source(t) == ProcessMonitor

\* (ORDER BY id DESC.)
sorts_before_by_id(a, b) == a.id > b.id

\* ORDER BY timestamp DESC: a row sorts before another when its text is the
\* greater; rows of equal text come in descending rowid (the order of a
\* backward scan of idx_latency_events_timestamp).
sorts_before(a, b) ==
  \/ TextLess(b.timestamp, a.timestamp)
  \/ a.timestamp = b.timestamp /\ a.id > b.id

RECURSIVE order_by_timestamp_desc(_)
order_by_timestamp_desc(table) ==
  IF table = {} THEN << >>
  ELSE LET first == CHOOSE r \in table : \A q \in table \ {r} : sorts_before(r, q)
       IN  << first >> \o order_by_timestamp_desc(table \ {first})

\* LIMIT ?
sql_limit(rowseq, limit) == SubSeq(rowseq, 1, IF limit < Len(rowseq) THEN limit ELSE Len(rowseq))

\* storage.rs 132-173: the LatencyEvent built from one row.
row_to_event(r) ==
  [ id |-> Some(r.id),
    timestamp |-> parse_from_rfc3339(r.timestamp),
    component_type |-> parse_component_type(r.component_type),
    event_source |-> parse_event_source(r.event_source),
    duration |-> r.duration_us * 1000,
    description |-> r.description,
    metadata |-> json_from_str(r.metadata),
    seq |-> r.seq,
    producer |-> r.producer ]

\* MetricsStorage::get_recent_events
get_recent_events(table, limit) ==
  LET selected == sql_limit(order_by_timestamp_desc(table), limit)
  IN  [ i \in 1..Len(selected) |-> row_to_event(selected[i]) ]

\* WHERE timestamp > datetime('now', '-1 hour'): a comparison of texts.
in_metrics_window(r, at) ==
  TextLess(sqlite_datetime(MinusOneHourSeconds(at)), r.timestamp)

\* FROM latency_events WHERE timestamp > ...: the rows a metrics query reads.
scanned_rows(table, at) == { r \in table : in_metrics_window(r, at) }

\* SUM(duration_us) over a group of rows.
RECURSIVE sum_duration_us(_)
sum_duration_us(group) ==
  IF group = {} THEN 0
  ELSE LET r == CHOOSE q \in group : TRUE
       IN  r.duration_us + sum_duration_us(group \ {r})

\* The texts GROUP BY component_type can meet, in the order of the texts.
GroupOrder ==
  << "FileSystem", "GitHubCopilot", "LocalModel", "Network", "System", "Terminal",
     "VSCode", "VSCodeExtension" >>

\* storage.rs 209-221: one PerformanceMetrics from one group of rows.  The
\* average is kept exact, as the fraction num / den milliseconds.
metrics_of_group(text, group) ==
  [ component |-> parse_component_type(text),
    total_events |-> Cardinality(group),
    avg_duration_ms |-> [ num |-> sum_duration_us(group),
                          den |-> Cardinality(group) * 1000 ],
    min_duration_ms |-> MinOf({ r.duration_us : r \in group }) \div 1000,
    max_duration_ms |-> MaxOf({ r.duration_us : r \in group }) \div 1000,
    p50_duration_ms |-> 0,
    p95_duration_ms |-> 0,
    p99_duration_ms |-> 0 ]

RECURSIVE metrics_from(_, _, _)
metrics_from(table, at, i) ==
  IF i > Len(GroupOrder) THEN << >>
  ELSE LET group == { r \in table : in_metrics_window(r, at)
                                      /\ r.component_type = GroupOrder[i] }
       IN  (IF group = {} THEN << >> ELSE << metrics_of_group(GroupOrder[i], group) >>)
             \o metrics_from(table, at, i + 1)

\* MetricsStorage::get_performance_metrics
get_performance_metrics(table, at) == metrics_from(table, at, 1)

\* (WHERE timestamp <= ?)
is_expired_or_at_cutoff(r, cutoff_date) == ~TextLess(to_rfc3339(cutoff_date), r.timestamp)

\* DELETE FROM latency_events WHERE timestamp < ? (the cutoff as text).
is_expired(r, cutoff_date) == TextLess(r.timestamp, to_rfc3339(cutoff_date))

\* cleanup_old_events: let cutoff_date = Utc::now() - Duration::days(retention_days)
cutoff_date(at, retention_days) == MinusDays(at, retention_days)

\* cleanup_old_events: the table after the DELETE bound to cutoff.
delete_older(table, cutoff) == { r \in table : ~is_expired(r, cutoff) }

\* deleted.rows_affected(): the number of rows the DELETE removes, which
\* cleanup_old_events only logs.
rows_affected(table, cutoff) ==
  Cardinality(table) - Cardinality(delete_older(table, cutoff))

\* A Result that is Ok: values is the set of values it hands to the caller.
Ok(values) == [ok |-> TRUE, values |-> values]

\* cleanup_old_events returns Result<()>: Ok(()) carries no value.
cleanup_old_events_result(table, cutoff) == Ok({})

(***************************************************************************)
(* The state of a run of `start` (main.rs start_monitoring).               *)
(***************************************************************************)
VARIABLES
  component,        \* the --component argument
  workers,          \* the number of worker threads of the tokio runtime
  daemon,           \* the --daemon flag: run_daemon, or else run_foreground
  stop,             \* the `stop` command issued against the run, if any, and
                    \* the events that were in the channel when it was issued
  settings,         \* the loaded Config, the --interval argument and whether
                    \* the database path can be created
  mpc,              \* where start_monitoring is: "start", "failed", "spawned", "running",
                    \* "exited"; where run_tests is: "test", "waited", "exited"
  spc,              \* per sampler task: "none", "wait", "emit", "send"
  pending,          \* per sampler: the emissions its current tick still owes
  held,             \* per sampler: the event it has created and not yet sent
  created,          \* the number of events created so far
  bus,              \* the contents of the crossbeam channel
  cpc,              \* the consumer task: "none", "ready", "recv", "store"
  cur,              \* the event the consumer has received and is storing
  rows,             \* the table latency_events
  sqlite_sequence,  \* the largest rowid latency_events ever held
  storeUp,          \* whether statements on the pool succeed
  outages,          \* how often the store has become unavailable
  now,              \* the wall clock, an index into Instants
  storeHung,        \* whether statements on the pool have stopped returning
  query,            \* the dashboard request being handled, and its response
  scan,             \* the get_system_status call under way: the statements it
                    \* has run and what they returned
  call,             \* the last measure_command_latency call: the outcome of the
                    \* measured operation and what the call returned
  purge             \* the cleanup_old_events call under way: the cutoff it has
                    \* computed and not yet handed to the database

vars ==
  << component, workers, daemon, stop, settings, mpc, spc, pending, held, created, bus, cpc,
     cur, rows, sqlite_sequence, storeUp, outages, now, storeHung, query, scan, call, purge >>

config_vars == << component, workers, daemon, stop, settings >>

\* Config::default(), `start` with its default --interval, and a database
\* path that can be created.
DefaultSettings ==
  [ interval |-> 100, interval_ms |-> 100, buffer_size |-> 10000, port |-> 3030,
    retention_days |-> 30, path_writable |-> TRUE ]

\* No `stop` command has been issued.
NoStop == [kind |-> "none", buffered |-> {}]
sampler_vars == << spc, pending, held, created >>
consumer_vars == << cpc, cur >>
store_vars == << rows, sqlite_sequence >>
env_vars == << storeUp, outages, now >>
query_vars == << storeHung, query, scan, call, purge >>

\* No cleanup_old_events call is under way.
NoPurge == [pc |-> "idle", cutoff |-> None]

\* measure_command_latency has not been called.
NoCall == [operation |-> {}, returned |-> {}]

\* No get_system_status call is under way.
NoScan ==
  [ pc |-> "idle", total_events |-> 0, last_event_timestamp |-> None,
    performance_metrics |-> << >> ]

\* No request is being handled.
NoQuery == [handler |-> "none", limit |-> 0, response |-> None]

\* Utc::now()
UtcNow == Instants[now]

\* A task runs on a worker thread from the moment it is polled until it
\* awaits.  A sampler holds one through a whole tick; the consumer holds one
\* while it is inside the blocking Receiver::recv().
BusyThreads ==
  Cardinality({ s \in Samplers : spc[s] \in {"emit", "send"} })
    + (IF cpc = "recv" THEN 1 ELSE 0)
FreeThread == BusyThreads < workers

\* The events scheduled so far: created, or owed by a tick under way.
Scheduled ==
  created + Len(pending["vscode"]) + Len(pending["models"]) + Len(pending["terminal"])

(***************************************************************************)
(* The channel: crossbeam_channel::unbounded() (monitor.rs 23).            *)
(***************************************************************************)
\* (A bounded channel, whose send waits for space.)
send_ready_bounded(ch) == Len(ch) < buffer_size
\* Sender::send on an unbounded channel never waits for space.
send_ready(ch) == TRUE
\* (A stack: the newest message is received first.)
chan_send_front(ch, ev) == << ev >> \o ch
\* (A receive that leaves the message in the channel.)
chan_recv_peek(ch) == ch
\* Sender::send appends; Receiver::recv takes the oldest message.
chan_send(ch, ev) == Append(ch, ev)
chan_recv_value(ch) == Head(ch)
chan_recv_rest(ch) == Tail(ch)

Init ==
  /\ component \in Components
  /\ workers \in 1..MaxWorkers
  /\ daemon = TRUE
  /\ stop = NoStop
  /\ settings = DefaultSettings
  /\ mpc = "start"
  /\ spc = [s \in Samplers |-> "none"]
  /\ pending = [s \in Samplers |-> << >>]
  /\ held = [s \in Samplers |-> NoEvent]
  /\ created = 0
  /\ bus = << >>
  /\ cpc = "none"
  /\ cur = NoEvent
  /\ rows = {}
  /\ sqlite_sequence = 0
  /\ storeUp = TRUE
  /\ outages = 0
  /\ storeHung = FALSE
  /\ query = NoQuery
  /\ scan = NoScan
  /\ call = NoCall
  /\ purge = NoPurge
  /\ now = Len(Instants) - 1

(***************************************************************************)
(* main.rs start_monitoring                                                *)
(***************************************************************************)
\* MetricsStorage::new succeeded; start_*_monitoring: tokio::spawn of each
\* sampler the component names.
StartMonitoring ==
  /\ mpc = "start"
  /\ settings.path_writable
  /\ mpc' = "spawned"
  /\ spc' = [s \in Samplers |-> IF s \in started_samplers(component) THEN "wait" ELSE "none"]
  /\ UNCHANGED << config_vars, query_vars, pending, held, created, bus, consumer_vars, store_vars,
                  env_vars >>

\* run_daemon / run_foreground: tokio::spawn of the event processing task.
RunMonitor ==
  /\ mpc = "spawned"
  /\ mpc' = "running"
  /\ cpc' = "ready"
  /\ UNCHANGED << config_vars, query_vars, sampler_vars, bus, cur, store_vars, env_vars >>

(***************************************************************************)
(* A sampler task (monitor.rs 43-104, 115-180, 191-226).                   *)
(***************************************************************************)
\* The top of the loop: refresh the process table and filter it.
SamplerScan(s) ==
  /\ spc[s] = "wait"
  /\ FreeThread
  /\ \E owed \in TickChoices[s] :
       /\ Scheduled + Len(owed) <= MaxEvents
       /\ pending' = [pending EXCEPT ![s] = owed]
  /\ spc' = [spc EXCEPT ![s] = "emit"]
  /\ UNCHANGED << config_vars, query_vars, mpc, held, created, bus, consumer_vars, store_vars,
                  env_vars >>

\* LatencyEvent::new for the next matched process.
SamplerCreate(s) ==
  /\ spc[s] = "emit"
  /\ pending[s] # << >>
  /\ \E dur \in ScanDurations :
       held' = [held EXCEPT ![s] =
                  LatencyEvent_new(Head(pending[s]).component_type,
                                   Head(pending[s]).event_source, dur,
                                   Head(pending[s]).description, UtcNow,
                                   created + 1, s)]
  /\ created' = created + 1
  /\ pending' = [pending EXCEPT ![s] = Tail(pending[s])]
  /\ spc' = [spc EXCEPT ![s] = "send"]
  /\ UNCHANGED << config_vars, query_vars, mpc, bus, consumer_vars, store_vars, env_vars >>

\* sender.send(event)
SamplerSend(s) ==
  /\ spc[s] = "send"
  /\ send_ready(bus)
  /\ bus' = chan_send(bus, held[s])
  /\ held' = [held EXCEPT ![s] = NoEvent]
  /\ spc' = [spc EXCEPT ![s] = "emit"]
  /\ UNCHANGED << config_vars, query_vars, mpc, pending, created, consumer_vars, store_vars,
                  env_vars >>

\* sleep(interval).await
SamplerSleep(s) ==
  /\ spc[s] = "emit"
  /\ pending[s] = << >>
  /\ spc' = [spc EXCEPT ![s] = "wait"]
  /\ UNCHANGED << config_vars, query_vars, mpc, pending, held, created, bus, consumer_vars,
                  store_vars, env_vars >>

(***************************************************************************)
(* The event processing task (monitor.rs 249-257, 275-291).                *)
(***************************************************************************)
\* receiver.recv() returns the oldest event.
ConsumerRecv ==
  /\ \/ cpc = "recv"
     \/ cpc = "ready" /\ FreeThread
  /\ bus # << >>
  /\ cur' = chan_recv_value(bus)
  /\ bus' = chan_recv_rest(bus)
  /\ cpc' = "store"
  /\ UNCHANGED << config_vars, query_vars, mpc, sampler_vars, store_vars, env_vars >>

\* receiver.recv() on an empty channel blocks the worker thread.
ConsumerBlock ==
  /\ cpc = "ready"
  /\ FreeThread
  /\ bus = << >>
  /\ cpc' = "recv"
  /\ UNCHANGED << config_vars, query_vars, mpc, sampler_vars, bus, cur, store_vars, env_vars >>

\* storage.store_event(&event).await returns Ok: the INSERT is committed.
StoreOk ==
  /\ cpc = "store"
  /\ storeUp
  /\ ~storeHung
  /\ rows' = store_event(rows, sqlite_sequence, cur)
  /\ sqlite_sequence' = next_rowid(rows, sqlite_sequence)
  /\ cur' = NoEvent
  /\ cpc' = "ready"
  /\ UNCHANGED << config_vars, query_vars, mpc, sampler_vars, bus, env_vars >>

\* store_event returns Err: warn!, and the loop goes on to the next recv().
StoreErr ==
  /\ cpc = "store"
  /\ ~storeUp
  /\ ~storeHung
  /\ cur' = NoEvent
  /\ cpc' = "ready"
  /\ UNCHANGED << config_vars, query_vars, mpc, sampler_vars, bus, store_vars, env_vars >>

(***************************************************************************)
(* The environment: the database becoming unavailable, and time.           *)
(***************************************************************************)
StoreGoesDown ==
  /\ storeUp
  /\ outages < MaxOutages
  /\ storeUp' = FALSE
  /\ outages' = outages + 1
  /\ UNCHANGED << config_vars, query_vars, mpc, sampler_vars, bus, consumer_vars, store_vars, now >>

StoreComesUp ==
  /\ ~storeUp
  /\ storeUp' = TRUE
  /\ UNCHANGED << config_vars, query_vars, mpc, sampler_vars, bus, consumer_vars, store_vars,
                  outages, now >>

ClockAdvance ==
  /\ now < Len(Instants)
  /\ now' = now + 1
  /\ UNCHANGED << config_vars, query_vars, mpc, sampler_vars, bus, consumer_vars, store_vars,
                  storeUp, outages >>

(***************************************************************************)
(* Operations of MetricsStorage other tasks and processes call.            *)
(***************************************************************************)
\* cleanup_old_events(retention_days) is called: the cutoff is computed
\* from the clock; the statement is then handed to the pool and awaited.
CleanupOldEventsBind(retention_days) ==
  /\ purge.pc = "idle"
  /\ purge' = [pc |-> "bound", cutoff |-> Some(cutoff_date(UtcNow, retention_days))]
  /\ UNCHANGED << config_vars, storeHung, query, scan, call, mpc, sampler_vars, bus,
                  consumer_vars, store_vars, env_vars >>

\* The DELETE runs, with the cutoff that was bound, on the table as it is
\* by then; cleanup_old_events logs rows_affected and returns Ok(()).
CleanupOldEventsDelete ==
  /\ purge.pc = "bound"
  /\ storeUp
  /\ ~storeHung
  /\ \E cutoff \in purge.cutoff : rows' = delete_older(rows, cutoff)
  /\ purge' = NoPurge
  /\ UNCHANGED << config_vars, storeHung, query, scan, call, mpc, sampler_vars, bus,
                  consumer_vars, sqlite_sequence, env_vars >>

\* The DELETE fails: `.await?` returns the error, and nothing is deleted.
CleanupOldEventsFail ==
  /\ purge.pc = "bound"
  /\ ~storeUp
  /\ ~storeHung
  /\ purge' = NoPurge
  /\ UNCHANGED << config_vars, storeHung, query, scan, call, mpc, sampler_vars, bus,
                  consumer_vars, store_vars, env_vars >>

\* get_recent_events(limit): a read, which changes nothing.
GetRecentEvents(limit) ==
  /\ storeUp
  /\ ~storeHung
  /\ Len(get_recent_events(rows, limit)) <= limit
  /\ UNCHANGED vars

Next ==
  \/ StartMonitoring
  \/ RunMonitor
  \/ \E s \in Samplers : SamplerScan(s)
  \/ \E s \in Samplers : SamplerCreate(s)
  \/ \E s \in Samplers : SamplerSend(s)
  \/ \E s \in Samplers : SamplerSleep(s)
  \/ ConsumerRecv
  \/ ConsumerBlock
  \/ StoreOk
  \/ StoreErr
  \/ StoreGoesDown
  \/ StoreComesUp
  \/ ClockAdvance
  \/ \E limit \in 0..MaxLimit : GetRecentEvents(limit)

Spec == Init /\ [][Next]_vars

(***************************************************************************)
(* The storage layer on its own: a caller of MetricsStorage that stores    *)
(* events created at any instant up to now, runs the retention clean-up    *)
(* and reads, while time passes.                                           *)
(***************************************************************************)
\* The (class, source, description) of the events the caller stores.
StoredKinds ==
  { Emission(VSCode, ProcessMonitor, "Process"),
    Emission(Terminal, TestCommand, "Test terminal command") }

InitStorage ==
  /\ component = "all"
  /\ workers = 1
  /\ daemon = TRUE
  /\ stop = NoStop
  /\ settings = DefaultSettings
  /\ mpc = "start"
  /\ spc = [s \in Samplers |-> "none"]
  /\ pending = [s \in Samplers |-> << >>]
  /\ held = [s \in Samplers |-> NoEvent]
  /\ created = 0
  /\ bus = << >>
  /\ cpc = "none"
  /\ cur = NoEvent
  /\ rows = {}
  /\ sqlite_sequence = 0
  /\ storeUp = TRUE
  /\ outages = 0
  /\ storeHung = FALSE
  /\ query = NoQuery
  /\ scan = NoScan
  /\ call = NoCall
  /\ purge = NoPurge
  /\ now = 1

\* store_event(&event) for an event created at instant t.
StoreEventCall(kind, dur, t) ==
  /\ storeUp
  /\ ~storeHung
  /\ created < MaxEvents
  /\ t <= now
  /\ LET ev == LatencyEvent_new(kind.component_type, kind.event_source, dur,
                                kind.description, Instants[t], created + 1, "caller")
     IN  rows' = store_event(rows, sqlite_sequence, ev)
  /\ sqlite_sequence' = next_rowid(rows, sqlite_sequence)
  /\ created' = created + 1
  /\ UNCHANGED << config_vars, query_vars, mpc, spc, pending, held, bus, consumer_vars, env_vars >>

NextStorage ==
  \/ \E kind \in StoredKinds, dur \in Durations, t \in 1..Len(Instants) :
       StoreEventCall(kind, dur, t)
  \/ \E r \in 1..MaxRetentionDays : CleanupOldEventsBind(r)
  \/ CleanupOldEventsDelete
  \/ \E limit \in 0..MaxLimit : GetRecentEvents(limit)
  \/ ClockAdvance

StorageSpec == InitStorage /\ [][NextStorage]_vars

(***************************************************************************)
(* The pipeline of `start --component terminal` from the first instant,    *)
(* with the retention clean-up run against its database.                   *)
(***************************************************************************)
InitRetention ==
  /\ component = "terminal"
  /\ workers \in 1..MaxWorkers
  /\ daemon = TRUE
  /\ stop = NoStop
  /\ settings = DefaultSettings
  /\ mpc = "start"
  /\ spc = [s \in Samplers |-> "none"]
  /\ pending = [s \in Samplers |-> << >>]
  /\ held = [s \in Samplers |-> NoEvent]
  /\ created = 0
  /\ bus = << >>
  /\ cpc = "none"
  /\ cur = NoEvent
  /\ rows = {}
  /\ sqlite_sequence = 0
  /\ storeUp = TRUE
  /\ outages = 0
  /\ storeHung = FALSE
  /\ query = NoQuery
  /\ scan = NoScan
  /\ call = NoCall
  /\ purge = NoPurge
  /\ now = 1

NextRetention ==
  \/ Next
  \/ \E r \in 1..MaxRetentionDays : CleanupOldEventsBind(r)
  \/ CleanupOldEventsDelete
  \/ CleanupOldEventsFail

RetentionSpec == InitRetention /\ [][NextRetention]_vars

(***************************************************************************)
(* Scheduling.  The tokio run queue is first-in first-out, so a task that  *)
(* is runnable again and again is polled (strong fairness of the steps     *)
(* that need a worker thread); a running task goes on; a statement sent to *)
(* the pool completes; an outage of the store ends.                        *)
(***************************************************************************)
Fairness ==
  /\ WF_vars(StartMonitoring)
  /\ WF_vars(RunMonitor)
  /\ \A s \in Samplers : SF_vars(SamplerScan(s))
  /\ \A s \in Samplers : WF_vars(SamplerCreate(s))
  /\ \A s \in Samplers : WF_vars(SamplerSend(s))
  /\ \A s \in Samplers : WF_vars(SamplerSleep(s))
  /\ SF_vars(ConsumerRecv)
  /\ SF_vars(ConsumerBlock)
  /\ WF_vars(StoreOk)
  /\ WF_vars(StoreErr)
  /\ WF_vars(StoreComesUp)

FairSpec == Init /\ [][Next]_vars /\ Fairness

(***************************************************************************)
(* The EventBus.                                                           *)
(***************************************************************************)
\* C1: a send onto a full EventBus (one that already holds buffer_size
\* events) drops the new event: the buffered events are left as they were.
C1_FullBusDropsNewest ==
  [][\A s \in Samplers :
       (SamplerSend(s) /\ Len(bus) >= buffer_size) => bus' = bus]_vars

\* C2: the EventBus never holds more events than monitoring.buffer_size.
C2_BusWithinCapacity == Len(bus) <= buffer_size

\* C3: a sampler inside a tick is never held up by the EventBus: whatever
\* the bus holds and whatever the consumer is doing, its send can complete,
\* and after the last send it can go to sleep.
C3_EmitNeverBlocks ==
  \A s \in Samplers :
    /\ spc[s] = "send" => ENABLED SamplerSend(s)
    /\ spc[s] = "emit" => ENABLED (SamplerCreate(s) \/ SamplerSleep(s))

\* A sampler is about to send while the bus holds buffer_size events or more
\* and the consumer is stalled in a store write during an outage.
C3_Witness ==
  \E s \in Samplers :
    /\ spc[s] = "send"
    /\ Len(bus) >= buffer_size
    /\ cpc = "store"
    /\ ~storeUp

(***************************************************************************)
(* The PersistenceSink.                                                    *)
(***************************************************************************)
\* C4: when store_event fails, the sink keeps the event and tries it again
\* (every failure in the code is the failure of an event's first attempt).
C4_FailedStoreIsRetried ==
  [][StoreErr => (cur' = cur /\ cpc' = "store")]_vars

\* The events of the bus, and those persisted.
InBus(k) == \E i \in 1..Len(bus) : bus[i].seq = k
Persisted(k) == \E r \in rows : r.seq = k

\* C5: under a store outage the pipeline stays live: no started sampler
\* waits for its next tick forever, and every event that is in the bus once
\* the store has recovered for good is eventually persisted.
C5_LiveUnderStoreOutage ==
  /\ \A s \in Samplers : []<>(spc[s] # "wait")
  /\ \A k \in 1..MaxEvents :
       [](InBus(k) /\ storeUp /\ outages = MaxOutages => <>Persisted(k))

\* The number of events the metrics snapshot counts for a class.
RECURSIVE snapshot_count(_, _)
snapshot_count(metrics, c) ==
  IF metrics = << >> THEN 0
  ELSE (IF Head(metrics).component = c THEN Head(metrics).total_events ELSE 0)
         + snapshot_count(Tail(metrics), c)

\* C6: every event the consumer takes from the bus reaches the aggregate of
\* its class as well as the store: when the processing of an event ends, with
\* the store written or not, the snapshot of its class counts one more event.
C6_EveryEventAggregated ==
  [][(StoreOk \/ StoreErr) =>
       snapshot_count(get_performance_metrics(rows', UtcNow), cur.component_type)
         = snapshot_count(get_performance_metrics(rows, UtcNow), cur.component_type) + 1]_vars

\* C7: two persisted events of one sampler have their ids in the order in
\* which the sampler emitted them.
C7_FifoPerProducer ==
  \A r1, r2 \in rows :
    (r1.producer = r2.producer /\ r1.seq < r2.seq) => r1.id < r2.id

\* Two events of one sampler are persisted, and an event of another sampler
\* that was created before one of them was persisted after it.
C7_Witness ==
  /\ \E r1, r2 \in rows : r1.producer = r2.producer /\ r1.seq < r2.seq
  /\ \E r1, r3 \in rows : r1.producer # r3.producer /\ r3.seq < r1.seq /\ r3.id > r1.id

(***************************************************************************)
(* The store.                                                              *)
(***************************************************************************)
MinNat(a, b) == IF a < b THEN a ELSE b

\* The instant a row's timestamp text stands for.
RowInstant(r) == parse_from_rfc3339(r.timestamp)

\* C8: for every limit, get_recent_events returns min(limit, rows) events,
\* each from a different row, newest first, and no row left out is newer
\* than a returned one.
C8_RecentNewestFirst ==
  \A limit \in 0..MaxLimit :
    LET events == get_recent_events(rows, limit)
        returned == { events[i].id : i \in 1..Len(events) }
    IN  /\ Len(events) = MinNat(limit, Cardinality(rows))
        /\ \A i, j \in 1..Len(events) :
             i < j => /\ ~InstantLess(events[i].timestamp, events[j].timestamp)
                      /\ events[i].id # events[j].id
        /\ \A i \in 1..Len(events) : \E r \in rows : events[i].id = Some(r.id)
        /\ \A r \in rows :
             Some(r.id) \notin returned =>
               \A i \in 1..Len(events) : ~InstantLess(events[i].timestamp, RowInstant(r))

\* The table holds more rows than some limit asks for, and a row stored
\* later than another carries the earlier timestamp.
C8_Witness ==
  /\ Cardinality(rows) = MaxEvents
  /\ \E r1, r2 \in rows : r1.id < r2.id /\ InstantLess(RowInstant(r2), RowInstant(r1))

\* The events that exist outside the store.
InFlight ==
  { bus[i] : i \in 1..Len(bus) } \cup ({ held[s] : s \in Samplers } \ {NoEvent})
    \cup ({cur} \ {NoEvent})

\* C9: an event has no id until it is persisted; the write gives the row an
\* id no row has or ever had, also after older rows were purged; and every
\* event get_recent_events returns has an id.
C9_IdAssignedOnce ==
  /\ [](\A ev \in InFlight : ev.id = None)
  /\ [](\A r1, r2 \in rows : r1.id = r2.id => r1 = r2)
  /\ [](\A r \in rows : r.id <= sqlite_sequence)
  /\ [][/\ sqlite_sequence' >= sqlite_sequence
        /\ \A r \in rows' \ rows : r.id > sqlite_sequence]_vars
  /\ [](\A limit \in 0..MaxLimit :
          LET events == get_recent_events(rows, limit)
          IN  \A i \in 1..Len(events) : \E r \in rows : events[i].id = Some(r.id))

\* A row was purged, a row with a larger id is stored, and an event that is
\* not yet persisted is on its way.
C9_Witness ==
  /\ \E r \in rows, k \in 1..sqlite_sequence :
       k < r.id /\ \A q \in rows : q.id # k
  /\ InFlight # {}

\* C10: a clean-up with retention_days = R removes the rows whose timestamp
\* is before now - R days, now being the time the clean-up read the clock,
\* and only those; a row exactly at now - R days stays, and the rows that
\* stay are unchanged.
C10_RetentionRemovesOlderOnly ==
  /\ [][\A R \in 1..MaxRetentionDays :
          CleanupOldEventsBind(R) =>
            purge'.cutoff = { [d |-> UtcNow.d - R, s |-> UtcNow.s, n |-> UtcNow.n] }]_vars
  /\ [][CleanupOldEventsDelete =>
          \A cutoff \in purge.cutoff :
            rows' = { r \in rows : ~InstantLess(RowInstant(r), cutoff) }]_vars

\* A clean-up has removed a row while a row exactly one day old was in the
\* table, and that row is still there.
C10_Witness ==
  \E r \in rows, k \in 1..sqlite_sequence :
    /\ r.id < k
    /\ \A q \in rows : q.id # k
    /\ RowInstant(r) = MinusDays(UtcNow, 1)

\* C11: a clean-up hands its caller the number of rows it removed, which is
\* the number of rows whose timestamp was before the cutoff when it ran.
C11_PurgeReturnsCount ==
  [][CleanupOldEventsDelete =>
       \A cutoff \in purge.cutoff :
         cleanup_old_events_result(rows, cutoff) =
           Ok({ Cardinality({ r \in rows : InstantLess(RowInstant(r), cutoff) }) })]_vars

(***************************************************************************)
(* The pipeline observed for longer than the retention horizon: the clock  *)
(* starts at the first instant, and the steps are those of the run itself. *)
(***************************************************************************)
\* The runtime has more than one worker thread, so the blocking recv() of
\* the consumer leaves a thread to the samplers.
InitHorizon == InitRetention /\ workers > 1

HorizonSpec == InitHorizon /\ [][Next]_vars /\ Fairness

\* A row of event k is older than the retention horizon of R days.
PastHorizon(k, R) ==
  \E r \in rows : r.seq = k /\ InstantLess(RowInstant(r), MinusDays(UtcNow, R))

\* C12: while the pipeline runs, a persisted event that has become older
\* than the retention horizon is eventually removed from the store.
C12_CompactorPurgesOnSchedule ==
  \A k \in 1..MaxEvents : \A R \in 1..MaxRetentionDays :
    PastHorizon(k, R) ~> ~Persisted(k)

(***************************************************************************)
(* Stopping a run: the `stop` command (main.rs stop_monitoring) and, in    *)
(* the foreground, Ctrl+C (monitor.rs run_foreground).                     *)
(***************************************************************************)
\* stop_monitoring(force): writes to the log and returns Ok(()).  It sends
\* nothing to the running monitor; stop records that it was issued.
StopCommand(force) ==
  /\ stop = NoStop
  /\ mpc = "running"
  /\ stop' = [kind |-> IF force THEN "forced" ELSE "graceful",
              buffered |-> { bus[i].seq : i \in 1..Len(bus) }]
  /\ UNCHANGED << component, workers, daemon, settings, query_vars, mpc, sampler_vars, bus,
                  consumer_vars, store_vars, env_vars >>

\* tokio::signal::ctrl_c() wins the select!: run_foreground returns, main
\* returns and the runtime is dropped with every task and the channel.  An
\* INSERT under way at that moment is committed or not.
\* The signal is delivered through the runtime's signal driver, which a
\* worker thread polls when it has no task to run: while every worker is
\* held by a task (the consumer inside the blocking recv()), ctrl_c() does
\* not complete.
CtrlC ==
  /\ ~daemon
  /\ mpc = "running"
  /\ FreeThread
  /\ mpc' = "exited"
  /\ spc' = [s \in Samplers |-> "none"]
  /\ pending' = [s \in Samplers |-> << >>]
  /\ held' = [s \in Samplers |-> NoEvent]
  /\ bus' = << >>
  /\ cpc' = "none"
  /\ cur' = NoEvent
  /\ \/ UNCHANGED store_vars
     \/ /\ cpc = "store"
        /\ storeUp
        /\ rows' = store_event(rows, sqlite_sequence, cur)
        /\ sqlite_sequence' = next_rowid(rows, sqlite_sequence)
  /\ UNCHANGED << config_vars, query_vars, created, env_vars >>

InitShutdown ==
  /\ component = "terminal"
  /\ workers \in 1..MaxWorkers
  /\ daemon \in BOOLEAN
  /\ stop = NoStop
  /\ settings = DefaultSettings
  /\ mpc = "start"
  /\ spc = [s \in Samplers |-> "none"]
  /\ pending = [s \in Samplers |-> << >>]
  /\ held = [s \in Samplers |-> NoEvent]
  /\ created = 0
  /\ bus = << >>
  /\ cpc = "none"
  /\ cur = NoEvent
  /\ rows = {}
  /\ sqlite_sequence = 0
  /\ storeUp = TRUE
  /\ outages = 0
  /\ storeHung = FALSE
  /\ query = NoQuery
  /\ scan = NoScan
  /\ call = NoCall
  /\ purge = NoPurge
  /\ now = Len(Instants) - 1

\* SIGINT in daemon mode: run_daemon installs no handler (ctrl_c() is only
\* called by run_foreground), so the signal ends the process at once, with
\* every task and the channel.  An INSERT under way is committed or not.
Sigint ==
  /\ daemon
  /\ mpc = "running"
  /\ mpc' = "exited"
  /\ spc' = [s \in Samplers |-> "none"]
  /\ pending' = [s \in Samplers |-> << >>]
  /\ held' = [s \in Samplers |-> NoEvent]
  /\ bus' = << >>
  /\ cpc' = "none"
  /\ cur' = NoEvent
  /\ \/ UNCHANGED store_vars
     \/ /\ cpc = "store"
        /\ storeUp
        /\ rows' = store_event(rows, sqlite_sequence, cur)
        /\ sqlite_sequence' = next_rowid(rows, sqlite_sequence)
  /\ UNCHANGED << config_vars, query_vars, created, env_vars >>

NextShutdown ==
  \/ Next
  \/ \E force \in BOOLEAN : StopCommand(force)
  \/ CtrlC
  \/ Sigint

ShutdownSpec == InitShutdown /\ [][NextShutdown]_vars /\ Fairness

\* Every task of the run has ended.
Terminated == mpc = "exited" /\ cpc = "none" /\ \A s \in Samplers : spc[s] = "none"

\* C13: once a stop has been signalled no sampler starts a further tick, and
\* the samplers and the daemon loop reach Terminated.
C13_ShutdownTerminatesTasks ==
  /\ [][\A s \in Samplers : ~(stop.kind # "none" /\ SamplerScan(s))]_vars
  /\ (stop.kind # "none") ~> Terminated

\* C14: after a graceful stop no new event is accepted by the bus, and the
\* run ends only with the bus drained: nothing buffered or in the consumer's
\* hands is lost when it ends.
C14_GracefulStopDrains ==
  /\ [][\A s \in Samplers : ~(stop.kind = "graceful" /\ SamplerSend(s))]_vars
  /\ [][(mpc # "exited" /\ mpc' = "exited") => (bus = << >> /\ cur = NoEvent)]_vars

\* C15: no event that was in the bus when a forced stop was requested is
\* persisted afterwards.
C15_ForcedStopDiscards ==
  stop.kind = "forced" => \A k \in stop.buffered : ~Persisted(k)

(***************************************************************************)
(* Metrics snapshots.                                                      *)
(***************************************************************************)
\* a - one hour: the start of the rolling window of a snapshot taken at a.
MinusOneHour(a) ==
  IF a.s >= SecondsPerHour
    THEN [d |-> a.d, s |-> a.s - SecondsPerHour, n |-> a.n]
    ELSE [d |-> a.d - 1, s |-> a.s + SecondsPerDay - SecondsPerHour, n |-> a.n]

\* The stored events of class c that are not older than the window of a
\* snapshot taken now.
InHorizon(c) ==
  { r \in rows : /\ parse_component_type(r.component_type) = c
                 /\ ~InstantLess(RowInstant(r), MinusOneHour(UtcNow)) }

\* The entries a snapshot taken now holds for class c.
SnapshotOf(c) ==
  LET metrics == get_performance_metrics(rows, UtcNow)
  IN  { metrics[i] : i \in { j \in 1..Len(metrics) : metrics[j].component = c } }

\* The histogram of the design: buckets doubling from 1 ms, [0, 1) below
\* them.  The lower edge of the bucket that holds ms, and that bucket's width.
RECURSIVE BucketLow(_)
BucketLow(ms) == IF ms < 1 THEN 0 ELSE IF ms < 2 THEN 1 ELSE 2 * BucketLow(ms \div 2)
BucketWidth(ms) == IF BucketLow(ms) = 0 THEN 1 ELSE BucketLow(ms)

\* The duration of the synthetic events of the end-to-end scenario, in
\* milliseconds and in the microseconds a row holds.
FixedMs == 42
FixedUs == FixedMs * 1000

\* C16: when the stored events of a class are all recent and all lasted
\* exactly 42 ms, the snapshot of
\* the class reports min = max = avg = 42 ms and p50, p95 and p99 in the
\* bucket that holds 42 ms.
C16_FixedDurationSnapshot ==
  \A c \in ComponentType :
    (/\ InHorizon(c) # {}
     /\ \A r \in rows : parse_component_type(r.component_type) = c =>
                           r \in InHorizon(c) /\ r.duration_us = FixedUs) =>
      \E m \in SnapshotOf(c) :
        /\ m.min_duration_ms = FixedMs
        /\ m.max_duration_ms = FixedMs
        /\ m.avg_duration_ms.num = FixedMs * m.avg_duration_ms.den
        /\ BucketLow(m.p50_duration_ms) = BucketLow(FixedMs)
        /\ BucketLow(m.p95_duration_ms) = BucketLow(FixedMs)
        /\ BucketLow(m.p99_duration_ms) = BucketLow(FixedMs)

\* The p-th percentile (nearest rank) of the durations of a group of rows,
\* in milliseconds.
TruePercentile(group, p) ==
  MinOf({ q.duration_us \div 1000 :
            q \in { r \in group :
                      Cardinality({ x \in group : x.duration_us <= r.duration_us }) * 100
                        >= p * Cardinality(group) } })

\* a is within one bucket-width of the true value b.
WithinOneBucket(a, b) == a - b <= BucketWidth(b) /\ b - a <= BucketWidth(b)

\* C17: for a class with ingested events, each of p50, p95 and p99 of the
\* snapshot is within one bucket-width of the true percentile of the
\* durations.
C17_PercentilesWithinOneBucket ==
  \A c \in ComponentType :
    InHorizon(c) # {} =>
      \E m \in SnapshotOf(c) :
        /\ WithinOneBucket(m.p50_duration_ms, TruePercentile(InHorizon(c), 50))
        /\ WithinOneBucket(m.p95_duration_ms, TruePercentile(InHorizon(c), 95))
        /\ WithinOneBucket(m.p99_duration_ms, TruePercentile(InHorizon(c), 99))

\* C18: what a metrics query reads has a fixed size: ingesting an event does
\* not add to the stored rows the next query has to go through.
C18_QueryWorkIsBounded ==
  [][Cardinality(rows') > Cardinality(rows) =>
       Cardinality(scanned_rows(rows', Instants[now'])) =
         Cardinality(scanned_rows(rows, UtcNow))]_vars

\* C19: a snapshot counts, for every class, exactly the stored events of
\* the class that are not older than one hour.
C19_RollingWindow ==
  \A c \in ComponentType :
    snapshot_count(get_performance_metrics(rows, UtcNow), c) = Cardinality(InHorizon(c))

\* Event k has been processed: it was created and is no longer in a
\* sampler's hands, in the channel or in the consumer's hands.
Processed(k) == k <= created /\ \A ev \in InFlight : ev.seq # k

\* No instant up to now is older than the window of a snapshot taken now, so
\* every event created so far is inside it.
AllInsideWindow ==
  \A t \in 1..now : ~InstantLess(Instants[t], MinusOneHour(UtcNow))

\* C20: while every event is inside the window, each processed event is
\* reflected by a snapshot read: the snapshot has an entry for its class
\* that counts its row.
C20_ProcessedEventsVisible ==
  AllInsideWindow =>
    \A k \in 1..MaxEvents :
      Processed(k) =>
        \E r \in scanned_rows(rows, UtcNow) :
          r.seq = k /\ SnapshotOf(parse_component_type(r.component_type)) # {}

(***************************************************************************)
(* The dashboard (dashboard.rs): the handlers of /api/status, /api/events, *)
(* /api/metrics and /health, and the reads of MetricsStorage behind them.  *)
(***************************************************************************)
\* A Result that is Err.
Err == [ok |-> FALSE, values |-> {}]

\* A read of the pool: `.await?` hands on the value when the statement
\* succeeds (up) and the error when it fails.
read_result(up, value) == IF up THEN Ok({value}) ELSE Err

\* SELECT COUNT(*) FROM latency_events
select_count(table) == Cardinality(table)

\* SELECT timestamp FROM latency_events ORDER BY timestamp DESC LIMIT 1,
\* fetch_optional, parsed.
select_last_timestamp(table) ==
  IF table = {} THEN None
  ELSE Some(parse_from_rfc3339(order_by_timestamp_desc(table)[1].timestamp))

\* The names get_system_status lists as active monitors.
active_monitors == << "VS Code Monitor", "Model Monitor", "Terminal Monitor" >>

\* let status = SystemStatus { .. }: built from what the three statements
\* of get_system_status returned.
SystemStatus(total_events, last_event_timestamp, performance_metrics) ==
  [ summary |-> "System operational",
    total_events |-> total_events,
    active_monitors |-> active_monitors,
    performance_metrics |-> performance_metrics,
    last_event_timestamp |-> last_event_timestamp ]

\* MetricsStorage::get_system_status on a table nothing writes to while its
\* statements run.
get_system_status(table, at) ==
  SystemStatus(select_count(table), select_last_timestamp(table),
               get_performance_metrics(table, at))

\* What the get_system_status call under way returns: the status built from
\* its three reads, or the error of the statement that failed.
scan_result ==
  IF scan.pc = "done"
    THEN Ok({SystemStatus(scan.total_events, scan.last_event_timestamp,
                          scan.performance_metrics)})
    ELSE Err

\* api_events asks for get_recent_events(50), whatever the request says.
ApiEventsLimit == 50

\* (Result::unwrap_or_default: a failed read answered as an empty success.)
json_response_or_default(result) == [status |-> "OK", body |-> result.values]

\* match result { Ok(x) => Ok(Json(json!(x))), Err(_) => Err(INTERNAL_SERVER_ERROR) }
json_response(result) ==
  IF result.ok THEN [status |-> "OK", body |-> result.values]
  ELSE [status |-> "INTERNAL_SERVER_ERROR", body |-> {}]

api_status(result) == json_response(result)
api_events(table, limit, up) ==
  json_response(read_result(up, get_recent_events(table, ApiEventsLimit)))
api_metrics(table, at, up) ==
  json_response(read_result(up, get_performance_metrics(table, at)))

\* (A health check that probes the store.)
health_check_probing_store ==
  json_response(read_result(storeUp, [status |-> "healthy"]))

\* health_check: a constant answer; it takes no State and reads nothing.
health_check == [status |-> "OK", body |-> {[status |-> "healthy"]}]

(***************************************************************************)
(* get_system_status statement by statement.  The three SELECTs run one    *)
(* after the other on the pool, outside any transaction, with an await     *)
(* after each; other tasks and processes write to the database in between. *)
(***************************************************************************)
\* SELECT COUNT(*) FROM latency_events
StatusCount ==
  /\ scan.pc \in {"idle", "done", "failed"}
  /\ storeUp
  /\ ~storeHung
  /\ scan' = [NoScan EXCEPT !.pc = "counted", !.total_events = select_count(rows)]
  /\ UNCHANGED << config_vars, storeHung, query, call, purge, mpc, sampler_vars, bus, consumer_vars,
                  store_vars, env_vars >>

\* SELECT timestamp ... ORDER BY timestamp DESC LIMIT 1
StatusLast ==
  /\ scan.pc = "counted"
  /\ storeUp
  /\ ~storeHung
  /\ scan' = [scan EXCEPT !.pc = "last",
                          !.last_event_timestamp = select_last_timestamp(rows)]
  /\ UNCHANGED << config_vars, storeHung, query, call, purge, mpc, sampler_vars, bus, consumer_vars,
                  store_vars, env_vars >>

\* self.get_performance_metrics().await?, and the SystemStatus is built.
StatusMetrics ==
  /\ scan.pc = "last"
  /\ storeUp
  /\ ~storeHung
  /\ scan' = [scan EXCEPT !.pc = "done",
                          !.performance_metrics = get_performance_metrics(rows, UtcNow)]
  /\ UNCHANGED << config_vars, storeHung, query, call, purge, mpc, sampler_vars, bus, consumer_vars,
                  store_vars, env_vars >>

\* A statement of get_system_status fails: `.await?` returns the error.
StatusFail ==
  /\ scan.pc \in {"idle", "done", "failed", "counted", "last"}
  /\ ~storeUp
  /\ ~storeHung
  /\ scan' = [NoScan EXCEPT !.pc = "failed"]
  /\ UNCHANGED << config_vars, storeHung, query, call, purge, mpc, sampler_vars, bus, consumer_vars,
                  store_vars, env_vars >>

(***************************************************************************)
(* The dashboard's handlers (dashboard.rs 72-99).                          *)
(***************************************************************************)
Handlers == {"status", "events", "metrics", "health"}
StoreHandlers == Handlers \ {"health"}

\* The answer of handler h to a request (with ?limit=limit) handled now.
handle(h, limit) ==
  CASE h = "status" -> api_status(scan_result)
    [] h = "events" -> api_events(rows, limit, storeUp)
    [] h = "metrics" -> api_metrics(rows, UtcNow, storeUp)
    [] h = "health" -> health_check

\* A request arrives; the one before it, if any, has been answered, and no
\* get_system_status call of another caller is under way.
QueryRequest(h, limit) ==
  /\ query.handler = "none" \/ query.response # None
  /\ scan.pc \in {"idle", "done", "failed"}
  /\ query' = [handler |-> h, limit |-> limit, response |-> None]
  /\ scan' = NoScan
  /\ UNCHANGED << config_vars, storeHung, call, purge, mpc, sampler_vars, bus, consumer_vars,
                  store_vars, env_vars >>

\* A status request is waiting for its get_system_status call.
StatusRequested == query.handler = "status" /\ query.response = None

\* The handler returns: its reads have returned, with a value or an error.
\* api_events and api_metrics await one statement; api_status awaits
\* get_system_status, whose three statements run one after the other.
\* Nothing in the handlers or in the pool limits how long a read may take.
QueryRespond ==
  /\ query.handler # "none"
  /\ query.response = None
  /\ query.handler \in {"events", "metrics"} => ~storeHung
  /\ query.handler = "status" => scan.pc \in {"done", "failed"}
  /\ query' = [query EXCEPT !.response = Some(handle(query.handler, query.limit))]
  /\ UNCHANGED << config_vars, storeHung, scan, call, purge, mpc, sampler_vars, bus, consumer_vars,
                  store_vars, env_vars >>

\* The database stops answering (a lock that is never released, a stalled
\* disk): statements neither succeed nor fail from here on.
StoreHangs ==
  /\ ~storeHung
  /\ storeHung' = TRUE
  /\ UNCHANGED << config_vars, query, scan, call, purge, mpc, sampler_vars, bus, consumer_vars,
                  store_vars, env_vars >>

InitQuery ==
  /\ component = "all"
  /\ workers = 1
  /\ daemon = TRUE
  /\ stop = NoStop
  /\ settings = DefaultSettings
  /\ mpc = "start"
  /\ spc = [s \in Samplers |-> "none"]
  /\ pending = [s \in Samplers |-> << >>]
  /\ held = [s \in Samplers |-> NoEvent]
  /\ created = 0
  /\ bus = << >>
  /\ cpc = "none"
  /\ cur = NoEvent
  /\ rows = {}
  /\ sqlite_sequence = 0
  /\ storeUp = TRUE
  /\ outages = 0
  /\ storeHung = FALSE
  /\ query = NoQuery
  /\ scan = NoScan
  /\ call = NoCall
  /\ purge = NoPurge
  /\ now = Len(Instants) - 1

\* The next statement of the get_system_status call api_status awaits.
HandlerScan ==
  /\ StatusRequested
  /\ scan.pc \notin {"done", "failed"}
  /\ (StatusCount \/ StatusLast \/ StatusMetrics \/ StatusFail)

NextQuery ==
  \/ \E kind \in StoredKinds, t \in 1..Len(Instants) : StoreEventCall(kind, FixedUs * 1000, t)
  \/ \E h \in Handlers, limit \in 0..MaxLimit :
       (h # "events" => limit = 0) /\ QueryRequest(h, limit)
  \/ HandlerScan
  \/ QueryRespond
  \/ StoreGoesDown
  \/ StoreComesUp
  \/ StoreHangs

\* A statement handed to the pool completes while the database answers,
\* and a handler whose reads have returned responds.
QuerySpec ==
  InitQuery /\ [][NextQuery]_vars /\ WF_vars(HandlerScan) /\ WF_vars(QueryRespond)

\* The request in hand is answered in this step, with response r.
Answers(r) == QueryRespond /\ query'.response = Some(r)

\* C21: a query whose store read fails is answered with an error, and that
\* answer differs from the answer the handler gives when there is no data.
C21_FailedReadIsAnError ==
  [][\A r \in query'.response :
       (/\ QueryRespond
        /\ \/ query.handler \in {"events", "metrics"} /\ ~storeUp
           \/ query.handler = "status" /\ scan.pc = "failed") =>
         /\ r.status # "OK"
         /\ r # api_status(Ok({get_system_status({}, UtcNow)}))
         /\ r # api_events({}, query.limit, TRUE)
         /\ r # api_metrics({}, UtcNow, TRUE)]_vars

\* A query was answered with an error while the store, which holds events,
\* was failing.
C21_Witness ==
  /\ ~storeUp
  /\ rows # {}
  /\ query.handler \in StoreHandlers
  /\ \E r \in query.response : r.status = "INTERNAL_SERVER_ERROR"

\* C22: the health endpoint answers healthy whatever the store does: a
\* health request can be answered in every state of the store, and its
\* answer is always the healthy one.
C22_HealthIndependentOfStore ==
  /\ []((query.handler = "health" /\ query.response = None) => ENABLED QueryRespond)
  /\ [][(QueryRespond /\ query.handler = "health") =>
          query'.response = Some([status |-> "OK", body |-> {[status |-> "healthy"]}])]_vars

\* A health request was answered while the store was failing and had
\* stopped answering.
C22_Witness ==
  /\ query.handler = "health"
  /\ query.response # None
  /\ ~storeUp
  /\ storeHung

\* C23: the events endpoint called with limit = N answers with
\* min(N, number of stored events) events.
C23_EventsEndpointHonoursLimit ==
  [][\A r \in query'.response :
       (QueryRespond /\ query.handler = "events" /\ storeUp) =>
         \A events \in r.body : Len(events) = MinNat(query.limit, Cardinality(rows))]_vars

\* C24: every request is eventually answered, with a result or an error.
C24_EveryQueryIsAnswered ==
  (query.handler # "none" /\ query.response = None) ~> (query.response # None)

(***************************************************************************)
(* The samplers.                                                           *)
(***************************************************************************)
\* C25: a sampler never terminates: whatever its tick found, each sleep of
\* a sampler is followed by its next tick.
C25_SamplersTickForever ==
  \A s \in Samplers : (spc[s] = "wait") ~> (spc[s] = "emit")

\* C30: samplers run independently: whatever the other samplers and the
\* consumer are doing, a sampler whose sleep is over can start its tick.
C30_SamplersRunIndependently ==
  \A s \in Samplers : spc[s] = "wait" => ENABLED SamplerScan(s)

\* The processes of table tbl that match the rules of class c.
matched(c, tbl) ==
  CASE c = VSCode -> vscode_processes(tbl)
    [] c = VSCodeExtension -> extension_hosts(tbl)
    [] c = GitHubCopilot -> copilot_processes(tbl)
    [] c = LocalModel ->
         UNION { matching_processes(tbl, local_model_patterns[i]) :
                   i \in 1..Len(local_model_patterns) }
    [] c = Terminal -> terminal_processes(tbl)
    [] OTHER -> {}

\* The number of events of class c among the emissions a tick owes.
EmissionsOf(owed, c) ==
  Cardinality({ i \in 1..Len(owed) : owed[i].component_type = c })

\* C26: in each tick a sampler emits, for every class, as many events as
\* there are processes matching the class at the scan: one per matched
\* process, none skipped, none counted twice.
C26_OneEventPerMatchedProcess ==
  [][\A s \in Samplers :
       SamplerScan(s) =>
         \A tbl \in ProcTables :
           pending'[s] = tick_emissions(s, tbl) =>
             \A c \in ComponentType :
               EmissionsOf(pending'[s], c) = Cardinality(matched(c, tbl))]_vars

\* The processes of table tbl that match the rules of some class.
AllMatched(tbl) == UNION { matched(c, tbl) : c \in ComponentType }

\* C27: a sampler has one class and every event it emits carries it: the
\* stored events of one sampler all have the same class, and a tick over a
\* process table with one matching process emits events of one class only.
C27_SamplerEmitsItsClass ==
  /\ [](\A r1, r2 \in rows :
          r1.producer = r2.producer => r1.component_type = r2.component_type)
  /\ [][\A s \in Samplers :
          SamplerScan(s) =>
            \A tbl \in ProcTables :
              (pending'[s] = tick_emissions(s, tbl) /\ Cardinality(AllMatched(tbl)) = 1) =>
                \A i, j \in 1..Len(pending'[s]) :
                  pending'[s][i].component_type = pending'[s][j].component_type]_vars

(***************************************************************************)
(* The wall clock.  LatencyEvent::new stamps an event with Utc::now(), the *)
(* time of day of the operating system, which a clock synchronisation or   *)
(* an operator can set back while the monitor runs.                        *)
(***************************************************************************)
\* The system time is set back.
ClockStepsBack ==
  /\ now > 1
  /\ now' = now - 1
  /\ UNCHANGED << config_vars, query_vars, mpc, sampler_vars, bus, consumer_vars, store_vars,
                  storeUp, outages >>

\* `start --component terminal` on a machine whose time of day is adjusted.
InitClock ==
  /\ InitRetention
  /\ workers > 1

NextClock ==
  \/ Next
  \/ ClockStepsBack

ClockSpec == InitClock /\ [][NextClock]_vars

\* The events sampler s has sent, by creation order and capture time.
Emitted(s) ==
  { [seq |-> bus[i].seq, at |-> bus[i].timestamp] :
      i \in { j \in 1..Len(bus) : bus[j].producer = s } }
    \cup { [seq |-> ev.seq, at |-> ev.timestamp] : ev \in { e \in {cur} \ {NoEvent} : e.producer = s } }
    \cup { [seq |-> r.seq, at |-> RowInstant(r)] : r \in { q \in rows : q.producer = s } }

\* C28: of two events one sampler emitted, the later one has a timestamp
\* that is not before the earlier one's.
C28_TimestampsMonotonicPerSampler ==
  \A s \in Samplers :
    \A e1, e2 \in Emitted(s) :
      e1.seq < e2.seq => ~InstantLess(e2.at, e1.at)

(***************************************************************************)
(* Start-up: main loads the configuration and dispatches to                *)
(* start_monitoring, which opens the database and spawns the tasks.        *)
(***************************************************************************)
\* Config::validate
validate(cfg) ==
  IF cfg.interval_ms = 0 THEN Err
  ELSE IF cfg.buffer_size = 0 THEN Err
  ELSE IF cfg.port < 1024 THEN Err
  ELSE IF cfg.retention_days = 0 THEN Err
  ELSE Ok({})

\* MetricsStorage::new(&config.storage.database_path).await? fails: the error
\* propagates out of start_monitoring and main before anything is spawned.
StartFails ==
  /\ mpc = "start"
  /\ ~settings.path_writable
  /\ mpc' = "failed"
  /\ UNCHANGED << config_vars, query_vars, sampler_vars, bus, consumer_vars, store_vars,
                  env_vars >>

\* The configurations a run is started with: the default one, and the
\* default one with one value changed.
StartupSettings ==
  { DefaultSettings,
    [DefaultSettings EXCEPT !.interval = 0],
    [DefaultSettings EXCEPT !.interval_ms = 0],
    [DefaultSettings EXCEPT !.buffer_size = 0],
    [DefaultSettings EXCEPT !.retention_days = 0],
    [DefaultSettings EXCEPT !.path_writable = FALSE] }

InitStartup ==
  /\ component = "terminal"
  /\ workers = MaxWorkers
  /\ daemon = TRUE
  /\ stop = NoStop
  /\ settings \in StartupSettings
  /\ mpc = "start"
  /\ spc = [s \in Samplers |-> "none"]
  /\ pending = [s \in Samplers |-> << >>]
  /\ held = [s \in Samplers |-> NoEvent]
  /\ created = 0
  /\ bus = << >>
  /\ cpc = "none"
  /\ cur = NoEvent
  /\ rows = {}
  /\ sqlite_sequence = 0
  /\ storeUp = TRUE
  /\ outages = 0
  /\ storeHung = FALSE
  /\ query = NoQuery
  /\ scan = NoScan
  /\ call = NoCall
  /\ purge = NoPurge
  /\ now = 1

NextStartup ==
  \/ Next
  \/ StartFails

StartupSpec == InitStartup /\ [][NextStartup]_vars

\* The run was started with a configuration or in an environment the
\* start-up must reject.
StartupFailure ==
  \/ settings.interval = 0
  \/ ~validate(settings).ok
  \/ ~settings.path_writable

\* C29: under a sampling interval of 0, a buffer size of 0, a retention of 0
\* days or an unwritable storage path, no sampler task and no consumer task
\* is ever spawned.
C29_StartupFailureSpawnsNothing ==
  StartupFailure => (\A s \in Samplers : spc[s] = "none") /\ cpc = "none"

\* A database that is written and purged while status queries read it.
NextStatus ==
  \/ \E kind \in StoredKinds, t \in 1..Len(Instants) : StoreEventCall(kind, FixedUs * 1000, t)
  \/ \E r \in 1..MaxRetentionDays : CleanupOldEventsBind(r)
  \/ CleanupOldEventsDelete
  \/ ClockAdvance
  \/ StatusCount
  \/ StatusLast
  \/ StatusMetrics

StatusSpec == InitStorage /\ [][NextStatus]_vars

\* The events the per-class metrics of a status count, over all classes.
RECURSIVE metrics_total(_)
metrics_total(metrics) ==
  IF metrics = << >> THEN 0
  ELSE Head(metrics).total_events + metrics_total(Tail(metrics))

\* C31: the total event count, the last event time and the per-class
\* metrics of one SystemStatus belong to one state of the store: the count is
\* zero exactly when there is no last event time, and the metrics count no
\* more events than the total.
C31_StatusIsOneSnapshot ==
  scan.pc = "done" =>
    /\ scan.total_events = 0 <=> scan.last_event_timestamp = None
    /\ metrics_total(scan.performance_metrics) <= scan.total_events

\* The chronologically latest of the rows of a table, as an option.
LatestInstant(table) ==
  { RowInstant(r) : r \in { q \in table :
                              \A o \in table : ~InstantLess(RowInstant(q), RowInstant(o)) } }

\* C37: total_events of a SystemStatus is the number of persisted events and
\* last_event_timestamp the largest persisted timestamp, absent if and only
\* if the store is empty: each statement reads that of the store it runs on,
\* and the finished status has no last event time exactly when it counts no
\* event.
C37_StatusCountsPersistedEvents ==
  /\ [][StatusCount => scan'.total_events = Cardinality({ r.id : r \in rows })]_vars
  /\ [][StatusLast => scan'.last_event_timestamp = LatestInstant(rows)]_vars
  /\ [](scan.pc = "done" => (scan.last_event_timestamp = None <=> scan.total_events = 0))

\* An event recent() returns has every field set.
AllFieldsSet(ev) ==
  /\ ev.id # None
  /\ \E i \in 1..Len(Instants) : ev.timestamp = Instants[i]
  /\ ev.component_type \in ComponentType
  /\ ev.event_source \in EventSource
  /\ ev.duration > 0
  /\ ev.description # ""
  /\ ev.metadata = JsonNull

\* The rows of table whose columns all hold what the writer bound.
WholeRows(table) ==
  { r \in table : r.description # "" /\ r.metadata = "null" /\ r.duration_us > 0 }

\* C32: the write of an event is atomic: at every state recent() returns an
\* event with all its fields set or not at all, the event whose write is
\* under way is not returned, a committed write adds exactly one whole row,
\* and a failed write leaves the store unchanged.
C32_WriteIsAtomic ==
  /\ [](\A limit \in 0..MaxLimit :
          LET events == get_recent_events(rows, limit)
          IN  \A i \in 1..Len(events) :
                AllFieldsSet(events[i]) /\ (cur # NoEvent => events[i].seq # cur.seq))
  /\ [](WholeRows(rows) = rows)
  /\ [][StoreOk => rows \subseteq rows' /\ Cardinality(rows' \ rows) = 1]_vars
  /\ [][StoreErr => rows' = rows /\ sqlite_sequence' = sqlite_sequence]_vars

\* An event is being written while the table holds a row, and a write has
\* failed before: an event that was created is neither a row nor in flight.
C32_Witness ==
  /\ cpc = "store"
  /\ rows # {}
  /\ \E k \in 1..created : ~Persisted(k) /\ \A ev \in InFlight : ev.seq # k

\* The event recent() returns for the row with rowid id.
ReadBack(table, id) ==
  LET events == get_recent_events(table, Cardinality(table))
  IN  { events[i] : i \in { j \in 1..Len(events) : events[j].id = Some(id) } }

\* C34: an event read back by recent() equals the event that was stored:
\* same timestamp, component class, source kind, duration in whole
\* microseconds, description and metadata.
C34_StoredEventReadsBackEqual ==
  [][\A kind \in StoredKinds, dur \in Durations, t \in 1..Len(Instants) :
       StoreEventCall(kind, dur, t) =>
         \A r \in rows' \ rows :
           \E ev \in ReadBack(rows', r.id) :
             /\ ev.timestamp = Instants[t]
             /\ ev.component_type = kind.component_type
             /\ ev.event_source = kind.event_source
             /\ ev.duration \div 1000 = dur \div 1000
             /\ ev.description = kind.description
             /\ ev.metadata = JsonNull]_vars

\* The name under which a status lists sampler s.
MonitorName(s) ==
  CASE s = "vscode" -> "VS Code Monitor"
    [] s = "models" -> "Model Monitor"
    [] s = "terminal" -> "Terminal Monitor"

\* The samplers whose task exists.
RunningSamplers == { s \in Samplers : spc[s] # "none" }

\* C33: the active monitors of a SystemStatus are exactly the samplers that
\* are running: one that was never started or has terminated is not listed.
C33_ActiveMonitorsAreRunning ==
  LET listed == get_system_status(rows, UtcNow).active_monitors
  IN  { listed[i] : i \in 1..Len(listed) } = { MonitorName(s) : s \in RunningSamplers }

(***************************************************************************)
(* The `test` command (main.rs run_tests): a LatencyMonitor is built and   *)
(* test_all_components sends synthetic events into its channel.  run_tests *)
(* calls neither run_daemon nor run_foreground, so no task receives from   *)
(* the channel in this process.                                            *)
(***************************************************************************)
MaxIterations == 2

\* The event each test_*_monitoring loop sends per iteration.
test_emission(s) ==
  CASE s = "vscode" -> Emission(VSCode, TestCommand, "Test VS Code command")
    [] s = "models" -> Emission(GitHubCopilot, TestCommand, "Test model interaction")
    [] s = "terminal" -> Emission(Terminal, TestCommand, "Test terminal command")

\* test_all_components runs the three loops in this order.
TestOrder == << "vscode", "models", "terminal" >>

\* The loop that is running: the first that still owes events.
test_loop ==
  { TestOrder[i] : i \in { j \in 1..Len(TestOrder) :
                             /\ pending[TestOrder[j]] # << >>
                             /\ \A k \in 1..(j - 1) : pending[TestOrder[k]] = << >> } }

InitTest ==
  /\ component = "all"
  /\ workers = 1
  /\ daemon = FALSE
  /\ stop = NoStop
  /\ settings = DefaultSettings
  /\ mpc = "test"
  /\ spc = [s \in Samplers |-> "none"]
  /\ \E iterations \in 1..MaxIterations :
       pending = [s \in Samplers |-> Repeat(test_emission(s), iterations)]
  /\ held = [s \in Samplers |-> NoEvent]
  /\ created = 0
  /\ bus = << >>
  /\ cpc = "none"
  /\ cur = NoEvent
  /\ rows = {}
  /\ sqlite_sequence = 0
  /\ storeUp = TRUE
  /\ outages = 0
  /\ storeHung = FALSE
  /\ query = NoQuery
  /\ scan = NoScan
  /\ call = NoCall
  /\ purge = NoPurge
  /\ now = 1

\* One iteration of a test_*_monitoring loop: sleep, LatencyEvent::new,
\* self.event_sender.send(event)?.
TestSend(s) ==
  /\ mpc = "test"
  /\ s \in test_loop
  /\ \E dur \in Durations :
       bus' = chan_send(bus, LatencyEvent_new(Head(pending[s]).component_type,
                                              Head(pending[s]).event_source, dur,
                                              Head(pending[s]).description, UtcNow,
                                              created + 1, s))
  /\ created' = created + 1
  /\ pending' = [pending EXCEPT ![s] = Tail(pending[s])]
  /\ UNCHANGED << config_vars, query_vars, mpc, spc, held, consumer_vars, store_vars, env_vars >>

\* sleep(Duration::from_millis(500)).await: "wait for events to be processed".
TestWait ==
  /\ mpc = "test"
  /\ test_loop = {}
  /\ mpc' = "waited"
  /\ UNCHANGED << config_vars, query_vars, sampler_vars, bus, consumer_vars, store_vars,
                  env_vars >>

\* test_all_components returns, then run_tests and main.
TestReturn ==
  /\ mpc = "waited"
  /\ mpc' = "exited"
  /\ UNCHANGED << config_vars, query_vars, sampler_vars, bus, consumer_vars, store_vars,
                  env_vars >>

NextTest ==
  \/ \E s \in Samplers : TestSend(s)
  \/ TestWait
  \/ TestReturn
  \/ ClockAdvance

TestSpec == InitTest /\ [][NextTest]_vars

\* C35: when the test injection has returned, every injected event has been
\* processed: each is a row of the store.
C35_TestEventsAreStored ==
  mpc = "exited" => \A k \in 1..created : Persisted(k)

\* The positions of the entries a snapshot taken now holds for class c.
EntriesOf(c) ==
  LET metrics == get_performance_metrics(rows, UtcNow)
  IN  { j \in 1..Len(metrics) : metrics[j].component = c }

\* C36: for each class the snapshot's count is the number of the class's
\* events inside the window, min and max are the smallest and largest of
\* their durations in milliseconds, and min <= avg <= max; a class with no
\* event in the window has no entry, and no class has more than one.
C36_SnapshotMatchesWindow ==
  \A c \in ComponentType :
    /\ Cardinality(EntriesOf(c)) <= 1
    /\ InHorizon(c) = {} => EntriesOf(c) = {}
    /\ InHorizon(c) # {} =>
         \E m \in SnapshotOf(c) :
           /\ m.total_events = Cardinality(InHorizon(c))
           /\ m.min_duration_ms = MinOf({ r.duration_us : r \in InHorizon(c) }) \div 1000
           /\ m.max_duration_ms = MaxOf({ r.duration_us : r \in InHorizon(c) }) \div 1000
           /\ m.min_duration_ms * m.avg_duration_ms.den <= m.avg_duration_ms.num
           /\ m.avg_duration_ms.num <= m.max_duration_ms * m.avg_duration_ms.den

(***************************************************************************)
(* The pipeline of `start --component terminal` under the scheduling of    *)
(* the runtime, for one and for several worker threads.                    *)
(***************************************************************************)
PipelineSpec == InitRetention /\ [][Next]_vars /\ Fairness

\* C38: the persisted rows correspond one-to-one to distinct events taken
\* from the bus: no event is a row twice, every row is an event that was
\* created and has left the bus, and a committed write adds the row of the
\* event the consumer holds; while no store failure has occurred, every
\* event in the bus is eventually persisted.
C38_PersistedExactlyOnce ==
  /\ [](\A r1, r2 \in rows : r1.seq = r2.seq => r1 = r2)
  /\ [](\A r \in rows : r.seq \in 1..created /\ \A ev \in InFlight : ev.seq # r.seq)
  /\ [][StoreOk => \A r \in rows' \ rows : r.seq = cur.seq]_vars
  /\ \A k \in 1..MaxEvents : InBus(k) ~> (Persisted(k) \/ outages > 0)

\* Two events are persisted and a third waits in the bus, the store never
\* having failed.
C38_Witness ==
  /\ Cardinality({ r.seq : r \in rows }) = 2
  /\ bus # << >>
  /\ outages = 0

(***************************************************************************)
(* LatencyMonitor::measure_command_latency (monitor.rs 307-329).           *)
(***************************************************************************)
\* The outcomes of a measured operation: Ok(value) or Err(error).
OperationResults == { Ok({"value"}), Err }

\* What callers measure.
MeasuredKinds ==
  { Emission(Terminal, CommandExecution, "command"),
    Emission(VSCode, UserInteraction, "keystroke") }

\* (A measurement that reports the operation whether it succeeded or not.)
measure_unconditionally(ch, kind, dur, at, k, op, connected) ==
  [ bus |-> IF connected
              THEN chan_send(ch, LatencyEvent_new(kind.component_type, kind.event_source, dur,
                                                  kind.description, at, k, "caller"))
              ELSE ch,
    created |-> k,
    returned |-> op ]

\* measure_command_latency: the channel, the number of events created and
\* the value returned, for an operation that ended with op after dur, the
\* channel being connected or not.
measure_command_latency(ch, kind, dur, at, k, op, connected) ==
  IF ~op.ok
    THEN [ bus |-> ch, created |-> k - 1, returned |-> op ]
    ELSE [ bus |-> IF connected
                     THEN chan_send(ch, LatencyEvent_new(kind.component_type,
                                                         kind.event_source, dur,
                                                         kind.description, at, k, "caller"))
                     ELSE ch,
           created |-> k,
           returned |-> op ]

MeasureCommand(kind, dur, op, connected) ==
  /\ created < MaxEvents
  /\ LET out == measure_command_latency(bus, kind, dur, UtcNow, created + 1, op, connected)
     IN  /\ bus' = out.bus
         /\ created' = out.created
         /\ call' = [operation |-> {op}, returned |-> {out.returned}]
  /\ UNCHANGED << config_vars, storeHung, query, scan, purge, mpc, spc, pending, held,
                  consumer_vars, store_vars, env_vars >>

NextMeasure ==
  \/ \E kind \in MeasuredKinds, dur \in Durations, op \in OperationResults, connected \in BOOLEAN :
       MeasureCommand(kind, dur, op, connected)
  \/ ClockAdvance

MeasureSpec == InitStorage /\ [][NextMeasure]_vars

\* C39: measure_command_latency returns the operation's result; when the
\* operation succeeded it emits exactly one event, with the given component
\* and source (none reaches a disconnected channel, and the call still
\* returns the result); when the operation failed it emits no event and
\* returns the operation's error.
C39_MeasureReportsSuccessOnly ==
  [][\A kind \in MeasuredKinds, dur \in Durations, op \in OperationResults, connected \in BOOLEAN :
       MeasureCommand(kind, dur, op, connected) =>
         /\ call'.returned = {op}
         /\ (op.ok /\ connected) =>
              /\ Len(bus') = Len(bus) + 1
              /\ SubSeq(bus', 1, Len(bus)) = bus
              /\ bus'[Len(bus')].component_type = kind.component_type
              /\ bus'[Len(bus')].event_source = kind.event_source
              /\ created' = created + 1
         /\ (op.ok /\ ~connected) => bus' = bus
         /\ ~op.ok => bus' = bus /\ created' = created]_vars

\* A call whose operation succeeded has put its event in the channel, and
\* the last call's operation failed and returned the error.
C39_Witness ==
  /\ bus # << >>
  /\ call.operation = {Err}
  /\ call.returned = {Err}

====
